---- MODULE Spec2Model ----
(***************************************************************************)
(* Model of dags/stock_pipeline_dag.py: the Alpha Vantage fetcher with its *)
(* retry loop (fetch_stock_data), the row normalisation and bulk upsert    *)
(* (process_and_store_data), the table bootstrap and the DAG wiring.       *)
(*                                                                         *)
(* Text is modelled as sequences of one-character strings so that parsing  *)
(* (strptime, float, int) is computed and not assumed.  Prices and volumes *)
(* are fixed-point integers counted in hundredths.                         *)
(***************************************************************************)
EXTENDS Integers, Sequences, FiniteSets, TLC

VARIABLES
    API_KEY,      \* module global read from the environment (line 12)
    fpc,          \* fetch_stock_data(s): "idle" | "request" | "done"
    attempt,      \* loop variable of `for attempt in range(1, 6)`
    last_err,     \* str(last_err) of the running call
    flog,         \* what the running call did: requests and sleeps, in order
    fres,         \* how the call ended: returned payload or raised error
    xcom,         \* XCom value pushed by task fetch_<s>
    table_exists, \* whether stock_data has been created
    stock_data,   \* committed rows of table stock_data
    now,          \* database clock (NOW())
    lpc,          \* process_and_store_data(s): "idle" | "writing" | "done"
    largs,        \* payload the running Loader call pulled from XCom
    rows,         \* the list `rows` built by the parse loop
    skipped,      \* date strings the parse loop skipped
    sent,         \* number of rows already sent on the cursor
    pending,      \* rows written by the open transaction, in statement order
    tx_time,      \* NOW() of the open transaction
    conn,         \* "none" | "open" | "closed"
    closes,       \* number of conn.close() calls of the running call
    lres,         \* how the Loader call ended
    pre_table,    \* stock_data as it was when the running Loader call began
    prev_load,    \* payload and outcome of the previous Loader call of s
    ncalls,       \* Loader calls begun so far
    task,         \* Airflow task instance states of the DAG run
    nreq          \* requests.get calls of fetch_<s> counted over the DAG run

fetchVars == <<fpc, attempt, last_err, flog, fres, xcom, nreq>>
loadVars  == <<lpc, largs, rows, skipped, sent, pending, tx_time, conn, closes,
               lres, pre_table, prev_load, ncalls>>
dbVars    == <<table_exists, stock_data, now>>
vars      == <<API_KEY, fetchVars, loadVars, dbVars, task>>

(***************************************************************************)
(* Configuration                                                           *)
(***************************************************************************)
SYMBOLS == {"IBM", "MSFT"}

TABLE_NAME == "stock_data"

REQUEST_INTERVAL_SEC == 15

\* range(1, 6): attempts 1..5
LastAttempt == 5

(***************************************************************************)
(* Python values                                                           *)
(***************************************************************************)
EmptyDict == [k \in {} |-> 0]

Dict1(k, v) == [x \in {k} |-> v]

\* `key in d` for a dict
HasKey(d, k) == k \in DOMAIN d

(***************************************************************************)
(* Text: a Python str is a sequence of one-character strings               *)
(***************************************************************************)
Digits == <<"0", "1", "2", "3", "4", "5", "6", "7", "8", "9">>

DigitSet == {Digits[i] : i \in 1..10}

DigitVal(c) == (CHOOSE i \in 1..10 : Digits[i] = c) - 1

IsDigits(s) == Len(s) > 0 /\ \A i \in 1..Len(s) : s[i] \in DigitSet

RECURSIVE ToNat(_)
ToNat(s) ==
    IF s = <<>> THEN 0
    ELSE ToNat(SubSeq(s, 1, Len(s) - 1)) * 10 + DigitVal(s[Len(s)])

\* the pieces of s between occurrences of the character sep
RECURSIVE Split(_, _)
Split(s, sep) ==
    IF \A i \in 1..Len(s) : s[i] # sep THEN <<s>>
    ELSE LET i == CHOOSE j \in 1..Len(s) :
                      s[j] = sep /\ \A k \in 1..(j - 1) : s[k] # sep
         IN  <<SubSeq(s, 1, i - 1)>> \o Split(SubSeq(s, i + 1, Len(s)), sep)

(***************************************************************************)
(* datetime.strptime(date_str, "%Y-%m-%d").date()   (line 75)              *)
(* %Y is \d\d\d\d; %m is 1[0-2]|0[1-9]|[1-9]; %d is                        *)
(* 3[01]|[12]\d|0[1-9]|[1-9]| [1-9]; the whole string must be consumed and *)
(* the day must exist in the month.                                        *)
(***************************************************************************)
NoDate == [ok |-> FALSE, y |-> 0, m |-> 0, d |-> 0]

IsLeap(y) == (y % 4 = 0 /\ y % 100 # 0) \/ y % 400 = 0

DaysInMonth(y, m) ==
    IF m = 2 THEN (IF IsLeap(y) THEN 29 ELSE 28)
    ELSE IF m \in {4, 6, 9, 11} THEN 30 ELSE 31

MonthField(f) == IsDigits(f) /\ Len(f) \in {1, 2} /\ ToNat(f) \in 1..12

DayField(f) ==
    \/ IsDigits(f) /\ Len(f) \in {1, 2} /\ ToNat(f) \in 1..31
    \/ Len(f) = 2 /\ f[1] = " " /\ f[2] \in DigitSet /\ f[2] # "0"

DayValue(f) == IF f[1] = " " THEN DigitVal(f[2]) ELSE ToNat(f)

strptime(date_str) ==
    LET f == Split(date_str, "-")
    IN  IF /\ Len(f) = 3
           /\ IsDigits(f[1]) /\ Len(f[1]) = 4
           /\ MonthField(f[2])
           /\ DayField(f[3])
        THEN LET y == ToNat(f[1])
                 m == ToNat(f[2])
                 d == DayValue(f[3])
             IN  IF y >= 1 /\ d <= DaysInMonth(y, m)
                 THEN [ok |-> TRUE, y |-> y, m |-> m, d |-> d]
                 ELSE NoDate
        ELSE NoDate

(***************************************************************************)
(* JSON scalars and float()/int()   (lines 79-83)                          *)
(* Numbers are counted in hundredths: float("100.5") is 10050.  Numeric    *)
(* text is digits, digits.digits, digits. or .digits (the forms the API    *)
(* sends); the other text of the model is not numeric ("N/A") and makes    *)
(* float() raise ValueError.                                               *)
(***************************************************************************)
Scale == 100

Str(s) == [t |-> "str", s |-> s, n |-> 0]

Num(n) == [t |-> "num", s |-> <<>>, n |-> n]

None == [t |-> "none", s |-> <<>>, n |-> 0]

\* bool(v)
Truthy(v) ==
    CASE v.t = "str"  -> Len(v.s) > 0
      [] v.t = "num"  -> v.n # 0
      [] OTHER        -> FALSE

NoFloat == [ok |-> FALSE, v |-> 0]

\* the first two fractional digits, as hundredths
Hundredths(f) ==
    IF Len(f) = 0 THEN 0
    ELSE IF Len(f) = 1 THEN DigitVal(f[1]) * 10
    ELSE DigitVal(f[1]) * 10 + DigitVal(f[2])

FloatOfStr(s) ==
    LET f == Split(s, ".")
    IN  IF Len(f) = 1 /\ IsDigits(f[1])
        THEN [ok |-> TRUE, v |-> ToNat(f[1]) * Scale]
        ELSE IF /\ Len(f) = 2
                /\ f[1] = <<>> \/ IsDigits(f[1])
                /\ f[2] = <<>> \/ IsDigits(f[2])
                /\ Len(f[1]) + Len(f[2]) > 0
        THEN [ok |-> TRUE, v |-> ToNat(f[1]) * Scale + Hundredths(f[2])]
        ELSE NoFloat

\* float(v): a str is parsed, a number converts, None raises TypeError
float(v) ==
    CASE v.t = "str" -> FloatOfStr(v.s)
      [] v.t = "num" -> [ok |-> TRUE, v |-> v.n]
      [] OTHER       -> NoFloat

\* int(x) of a float x >= 0 truncates the fraction; the result is in units
int(x) == x \div Scale

\* vals.get(key, 0) without the `or 0`
GetOnly(d, key) == IF HasKey(d, key) THEN d[key] ELSE Num(0)

\* vals.get(key, 0) or 0
GetOrZero(d, key) ==
    LET got == IF HasKey(d, key) THEN d[key] ELSE Num(0)
    IN  IF Truthy(got) THEN got ELSE Num(0)

(***************************************************************************)
(* Exceptions and call outcomes                                            *)
(***************************************************************************)
\* an exception: its class, the fixed part of its message, the symbol the
\* message interpolates ("" when it interpolates none) and the cause text
Exc(type, text, symbol, cause) ==
    [type |-> type, text |-> text, symbol |-> symbol, cause |-> cause]

NoExc == Exc("", "", "", "")

Returned(data) == [status |-> "returned", data |-> data, err |-> NoExc]

Raised(e) == [status |-> "raised", data |-> EmptyDict, err |-> e]

NotRun == [status |-> "none", data |-> EmptyDict, err |-> NoExc]

\* an XCom slot: empty (xcom_pull gives None) or holding a dict
NoXCom == [has |-> FALSE, data |-> EmptyDict]

XCom(data) == [has |-> TRUE, data |-> data]

(***************************************************************************)
(* fetch_stock_data   (lines 35-58)                                        *)
(***************************************************************************)
\* what requests.get / raise_for_status / r.json() produced
Failure(exc) == [kind |-> "exc", exc |-> exc, data |-> EmptyDict]

Body(data) == [kind |-> "ok", exc |-> "", data |-> data]

\* requests.RequestException subclasses raised by lines 44-45
TransportErrors == {"ConnectionError", "Timeout", "HTTPError"}

\* the advisory checked before the error indicator
ClassifyNoteFirst(resp) ==
    IF resp.kind = "exc" THEN "transport"
    ELSE IF HasKey(resp.data, "Note") THEN "rate_limited"
    ELSE IF HasKey(resp.data, "Error Message") THEN "api_error"
    ELSE "success"

\* the advisory not recognised
ClassifyNoNote(resp) ==
    IF resp.kind = "exc" THEN "transport"
    ELSE IF HasKey(resp.data, "Error Message") THEN "api_error"
    ELSE "success"

\* lines 44-57: how one attempt's outcome is classified
Classify(resp) ==
    IF resp.kind = "exc" THEN "transport"
    ELSE IF HasKey(resp.data, "Error Message") THEN "api_error"
    ELSE IF HasKey(resp.data, "Note") THEN "rate_limited"
    ELSE "success"

\* a backoff that does not grow with the attempt
BackoffFixed(k) == REQUEST_INTERVAL_SEC

\* lines 50 and 57: time.sleep(REQUEST_INTERVAL_SEC * attempt)
BackoffDelay(k) == REQUEST_INTERVAL_SEC * k

\* a pacing delay that grows with the attempt
PacingScaled(k) == REQUEST_INTERVAL_SEC * k

\* line 53: time.sleep(REQUEST_INTERVAL_SEC)
PacingDelay(k) == REQUEST_INTERVAL_SEC

\* line 42: whether the for loop has another iteration after attempt k
HasNextAttempt(k) == k < LastAttempt

\* line 48
ApiError(s, data) == Exc("ValueError", "API error for", s, data["Error Message"])

\* line 58
FetchFailed(s, cause) == Exc("RuntimeError", "Failed to fetch", s, cause)

\* line 37
KeyNotSet == Exc("ValueError", "ALPHA_VANTAGE_API_KEY is not set.", "", "")

\* lines 51 and 56: str(last_err) after a retryable outcome
RetryCause(resp) == IF resp.kind = "exc" THEN resp.exc ELSE "Rate limited."

\* the first retryable error kept instead of the latest
KeepsFirstErr(prev, resp) == IF prev = "None" THEN RetryCause(resp) ELSE prev

\* lines 51 and 56: last_err is assigned on every retryable outcome
NextLastErr(prev, resp) == RetryCause(resp)

NoResp == [kind |-> "", exc |-> "", data |-> EmptyDict]

\* log entries: attempt k was sent and resp came back; time.sleep(secs) ran
Request(k, resp) == [ev |-> "request", n |-> k, resp |-> resp]

Sleep(secs) == [ev |-> "sleep", n |-> secs, resp |-> NoResp]

\* the credential tested with `is None`
IsNotNone(key) == key.t # "none"

\* line 36: `if not API_KEY` is false
Configured(key) == Truthy(key)

\* lines 36-41: the call begins; a missing credential raises at once
FetchCall(s) ==
    /\ fpc[s] = "idle"
    /\ IF ~Configured(API_KEY)
       THEN /\ fpc' = [fpc EXCEPT ![s] = "done"]
            /\ fres' = [fres EXCEPT ![s] = Raised(KeyNotSet)]
            /\ UNCHANGED <<attempt, last_err>>
       ELSE /\ fpc' = [fpc EXCEPT ![s] = "request"]
            /\ attempt' = [attempt EXCEPT ![s] = 1]
            /\ last_err' = [last_err EXCEPT ![s] = "None"]
            /\ UNCHANGED fres
    /\ flog' = [flog EXCEPT ![s] = <<>>]
    /\ UNCHANGED <<API_KEY, xcom, loadVars, dbVars, task>>

\* lines 42-58: one iteration of the loop, and line 58 when it was the last
FetchAttempt(s, resp) ==
    /\ fpc[s] = "request"
    /\ LET k == attempt[s]
           c == Classify(resp)
           asked == Append(flog[s], Request(k, resp))
       IN  CASE c = "api_error" ->
                  /\ flog' = [flog EXCEPT ![s] = asked]
                  /\ fres' = [fres EXCEPT ![s] = Raised(ApiError(s, resp.data))]
                  /\ fpc' = [fpc EXCEPT ![s] = "done"]
                  /\ UNCHANGED <<attempt, last_err, xcom>>
             [] c = "success" ->
                  /\ flog' = [flog EXCEPT ![s] = Append(asked, Sleep(PacingDelay(k)))]
                  /\ fres' = [fres EXCEPT ![s] = Returned(resp.data)]
                  /\ xcom' = [xcom EXCEPT ![s] = XCom(resp.data)]
                  /\ fpc' = [fpc EXCEPT ![s] = "done"]
                  /\ UNCHANGED <<attempt, last_err>>
             [] OTHER ->
                  /\ flog' = [flog EXCEPT ![s] = Append(asked, Sleep(BackoffDelay(k)))]
                  /\ last_err' = [last_err EXCEPT ![s] =
                                     NextLastErr(last_err[s], resp)]
                  /\ IF HasNextAttempt(k)
                     THEN /\ attempt' = [attempt EXCEPT ![s] = k + 1]
                          /\ UNCHANGED <<fpc, fres>>
                     ELSE /\ fpc' = [fpc EXCEPT ![s] = "done"]
                          /\ fres' = [fres EXCEPT ![s] =
                                         Raised(FetchFailed(s, last_err'[s]))]
                          /\ UNCHANGED attempt
                  /\ UNCHANGED xcom
    /\ UNCHANGED <<API_KEY, loadVars, dbVars, task>>

(***************************************************************************)
(* Row normalisation of process_and_store_data   (lines 72-86)             *)
(***************************************************************************)
\* a series item: the date string and the value found under it, which is a
\* dict of fields or something else (isdict = FALSE)
Entry(key, vals) == [key |-> key, vals |-> vals]

DictVal(d) == [isdict |-> TRUE, d |-> d]

NotADict == [isdict |-> FALSE, d |-> EmptyDict]

\* the date cut to its month
MonthOf(dt) == [y |-> dt.y, m |-> dt.m, d |-> 1]

\* line 75: .date()
DateOf(dt) == [y |-> dt.y, m |-> dt.m, d |-> dt.d]

\* lines 74-86: the tuple appended for one item, or the exception caught
ParseEntry(symbol, e) ==
    LET dt == strptime(e.key)
        o  == float(GetOrZero(e.vals.d, "1. open"))
        h  == float(GetOrZero(e.vals.d, "2. high"))
        l  == float(GetOrZero(e.vals.d, "3. low"))
        c  == float(GetOrZero(e.vals.d, "4. close"))
        v  == float(GetOrZero(e.vals.d, "5. volume"))
    IN  [ok  |-> dt.ok /\ e.vals.isdict /\ o.ok /\ h.ok /\ l.ok /\ c.ok /\ v.ok,
         row |-> [symbol |-> symbol, record_date |-> DateOf(dt),
                  open |-> o.v, high |-> h.v, low |-> l.v, close |-> c.v,
                  volume |-> int(v.v)]]

\* the loop left at the first item that fails
RECURSIVE BuildRowsUntilError(_, _)
BuildRowsUntilError(symbol, series) ==
    IF series = <<>> THEN <<>>
    ELSE LET p == ParseEntry(symbol, Head(series))
         IN  IF p.ok THEN <<p.row>> \o BuildRowsUntilError(symbol, Tail(series))
             ELSE <<>>

\* lines 72-86: the list rows after the loop, in the order of series.items()
RECURSIVE BuildRows(_, _)
BuildRows(symbol, series) ==
    IF series = <<>> THEN <<>>
    ELSE LET p == ParseEntry(symbol, Head(series))
         IN  (IF p.ok THEN <<p.row>> ELSE <<>>) \o BuildRows(symbol, Tail(series))

\* the date strings the loop reported as skipped (line 86)
RECURSIVE SkippedKeys(_, _)
SkippedKeys(symbol, series) ==
    IF series = <<>> THEN <<>>
    ELSE (IF ParseEntry(symbol, Head(series)).ok THEN <<>> ELSE <<Head(series).key>>)
         \o SkippedKeys(symbol, Tail(series))

\* line 67: data.get("Time Series (Daily)", {})
SeriesOf(data) ==
    IF HasKey(data, "Time Series (Daily)") THEN data["Time Series (Daily)"] ELSE <<>>

\* line 63: `not data` for the value xcom_pull returned
NoPayload(x) == ~x.has \/ DOMAIN x.data = {}

(***************************************************************************)
(* Table stock_data and the upsert statement   (lines 19-31, 91-101)       *)
(***************************************************************************)
Key(r) == <<r.symbol, r.record_date>>

Stored(row, t) ==
    [symbol |-> row.symbol, record_date |-> row.record_date,
     open |-> row.open, high |-> row.high, low |-> row.low, close |-> row.close,
     volume |-> row.volume, fetched_at |-> t]

\* a plain INSERT into a table without the primary key
InsertOnly(tbl, row, t) == tbl \cup {Stored(row, t)}

\* the conflict target is record_date alone
UpsertByDate(tbl, row, t) ==
    {r \in tbl : r.record_date # row.record_date} \cup {Stored(row, t)}

\* lines 92-100: INSERT ... ON CONFLICT (symbol, record_date) DO UPDATE SET ...
Upsert(tbl, row, t) == {r \in tbl : Key(r) # Key(row)} \cup {Stored(row, t)}

\* only the first row of the transaction reaches the table
ApplyFirst(tbl, rs, t) == IF rs = <<>> THEN tbl ELSE Upsert(tbl, Head(rs), t)

RECURSIVE ApplyAll(_, _, _)
ApplyAll(tbl, rs, t) ==
    IF rs = <<>> THEN tbl ELSE ApplyAll(Upsert(tbl, Head(rs), t), Tail(rs), t)

\* line 106: execute_values(..., page_size=500) sends the rows in pages, one
\* INSERT statement per page.  The page is PageSize rows here.
PageSize == 2

Min(a, b) == IF a < b THEN a ELSE b

NextPage(rs, done) == SubSeq(rs, done + 1, Min(done + PageSize, Len(rs)))

\* PostgreSQL rejects a statement whose VALUES list holds one conflict key
\* twice ("ON CONFLICT DO UPDATE command cannot affect row a second time")
SameKeyTwice(page) ==
    \E i, j \in 1..Len(page) : i # j /\ Key(page[i]) = Key(page[j])

\* the error the statement of one page raises, "" when it succeeds
StatementError(page, exists) ==
    IF ~exists THEN "UndefinedTable"
    ELSE IF SameKeyTwice(page) THEN "CardinalityViolation"
    ELSE ""

(***************************************************************************)
(* process_and_store_data   (lines 60-113)                                 *)
(***************************************************************************)
NoLoad == [status |-> "none", err |-> NoExc, count |-> 0]

\* the call returned without touching the database (lines 65, 70, 89)
NoOp == [status |-> "noop", err |-> NoExc, count |-> 0]

\* line 108: committed, len(rows) reported
Committed(n) == [status |-> "committed", err |-> NoExc, count |-> n]

LoadRaised(e) == [status |-> "raised", err |-> e, count |-> 0]

\* line 111
DbError(s, cause) == Exc("RuntimeError", "DB error", s, cause)

\* what leaves the except block (lines 109-111): the wrapped error when
\* conn.rollback() returns, the exception of rollback() itself when it raises
HandlerError(s, cause, rollback_ok) ==
    IF rollback_ok THEN DbError(s, cause)
    ELSE Exc("InterfaceError", "connection already closed", "", "")

\* the check of line 88 left out
WritesAlways(built) == TRUE

\* line 88: `if not rows: return`
WritesNeeded(built) == built # <<>>

\* lines 60-103: pull the payload, build rows and, when there are rows, connect
LoadBegin(s, x, connect_ok) ==
    /\ lpc[s] \in {"idle", "done"}
    /\ conn[s] # "open"
    /\ LET series == SeriesOf(x.data)
           built  == IF NoPayload(x) THEN <<>> ELSE BuildRows(s, series)
           skip   == IF NoPayload(x) THEN <<>> ELSE SkippedKeys(s, series)
       IN  /\ largs' = [largs EXCEPT ![s] = x]
           /\ rows' = [rows EXCEPT ![s] = built]
           /\ skipped' = [skipped EXCEPT ![s] = skip]
           /\ IF ~WritesNeeded(built)
              THEN /\ lpc' = [lpc EXCEPT ![s] = "done"]
                   /\ lres' = [lres EXCEPT ![s] = NoOp]
                   /\ conn' = [conn EXCEPT ![s] = "none"]
              ELSE IF connect_ok
              THEN /\ lpc' = [lpc EXCEPT ![s] = "writing"]
                   /\ lres' = [lres EXCEPT ![s] = NoLoad]
                   /\ conn' = [conn EXCEPT ![s] = "open"]
              ELSE /\ lpc' = [lpc EXCEPT ![s] = "done"]
                   /\ lres' = [lres EXCEPT ![s] =
                                  LoadRaised(Exc("OperationalError",
                                                 "could not connect", "", ""))]
                   /\ conn' = [conn EXCEPT ![s] = "none"]
    /\ sent' = [sent EXCEPT ![s] = 0]
    /\ pending' = [pending EXCEPT ![s] = <<>>]
    /\ tx_time' = [tx_time EXCEPT ![s] = 0]
    /\ closes' = [closes EXCEPT ![s] = 0]
    /\ pre_table' = [pre_table EXCEPT ![s] = stock_data]
    /\ prev_load' = [prev_load EXCEPT ![s] =
                        [args |-> largs[s], status |-> lres[s].status]]
    /\ ncalls' = ncalls + 1
    /\ UNCHANGED <<API_KEY, fetchVars, dbVars, task>>

\* conn.close() written after the try statement instead of in a finally
\* block: it runs only when the statement was left without an exception
CloseAfterTry(s, left_ok) ==
    IF left_ok
    THEN /\ conn' = [conn EXCEPT ![s] = "closed"]
         /\ closes' = [closes EXCEPT ![s] = closes[s] + 1]
    ELSE UNCHANGED <<conn, closes>>

\* lines 112-113: the finally block runs conn.close() however the try and
\* except blocks were left
Finally(s, left_ok) ==
    /\ conn' = [conn EXCEPT ![s] = "closed"]
    /\ closes' = [closes EXCEPT ![s] = closes[s] + 1]

\* lines 109-113: rollback, raise, and close in the finally block
Handler(s, cause, rollback_ok) ==
    /\ lpc' = [lpc EXCEPT ![s] = "done"]
    /\ lres' = [lres EXCEPT ![s] = LoadRaised(HandlerError(s, cause, rollback_ok))]
    /\ pending' = [pending EXCEPT ![s] = <<>>]
    /\ Finally(s, FALSE)
    /\ UNCHANGED <<stock_data, table_exists>>

\* line 106: the statement of the next page runs inside the transaction; the
\* first statement starts the transaction, which fixes its NOW()
ExecPage(s, rollback_ok) ==
    /\ lpc[s] = "writing"
    /\ sent[s] < Len(rows[s])
    /\ LET page == NextPage(rows[s], sent[s])
           err  == StatementError(page, table_exists)
           t    == IF sent[s] = 0 THEN now + 1 ELSE tx_time[s]
       IN  /\ tx_time' = [tx_time EXCEPT ![s] = t]
           /\ now' = IF sent[s] = 0 THEN now + 1 ELSE now
           /\ IF err = ""
              THEN /\ pending' = [pending EXCEPT ![s] = pending[s] \o page]
                   /\ sent' = [sent EXCEPT ![s] = sent[s] + Len(page)]
                   /\ UNCHANGED <<lpc, lres, conn, closes, stock_data, table_exists>>
              ELSE /\ Handler(s, err, rollback_ok)
                   /\ UNCHANGED sent
    /\ UNCHANGED <<API_KEY, fetchVars, largs, rows, skipped, pre_table, prev_load,
                   ncalls, task>>

\* a database error that does not depend on the rows (server or connection
\* failure), raised by the statement about to run or by commit()
DbFault(s, cause, rollback_ok) ==
    /\ lpc[s] = "writing"
    /\ Handler(s, cause, rollback_ok)
    /\ UNCHANGED <<API_KEY, fetchVars, largs, rows, skipped, sent, tx_time,
                   pre_table, prev_load, ncalls, now, task>>

\* lines 107-108 and 113: commit, report, close
Commit(s) ==
    /\ lpc[s] = "writing"
    /\ sent[s] = Len(rows[s])
    /\ stock_data' = ApplyAll(stock_data, pending[s], tx_time[s])
    /\ lpc' = [lpc EXCEPT ![s] = "done"]
    /\ lres' = [lres EXCEPT ![s] = Committed(Len(rows[s]))]
    /\ pending' = [pending EXCEPT ![s] = <<>>]
    /\ Finally(s, TRUE)
    /\ UNCHANGED <<API_KEY, fetchVars, largs, rows, skipped, sent, tx_time,
                   pre_table, prev_load, ncalls, table_exists, now, task>>

(***************************************************************************)
(* create_table_if_not_exists   (lines 17-33)                              *)
(***************************************************************************)
\* DROP TABLE followed by CREATE TABLE
CreateTableAnew ==
    /\ table_exists' = TRUE
    /\ stock_data' = {}
    /\ UNCHANGED now

\* CREATE TABLE IF NOT EXISTS: creates the empty table once, keeps its rows
CreateTable ==
    /\ table_exists' = TRUE
    /\ stock_data' = IF table_exists THEN stock_data ELSE {}
    /\ UNCHANGED now

(***************************************************************************)
(* Inputs                                                                  *)
(***************************************************************************)
\* date strings: "2024-01-02", the same day written "2024-1-2", "2024-01-03",
\* "2024-01-04", and a day that does not exist, "2024-02-30"
D_0102 == <<"2", "0", "2", "4", "-", "0", "1", "-", "0", "2">>

D_12 == <<"2", "0", "2", "4", "-", "1", "-", "2">>

D_0103 == <<"2", "0", "2", "4", "-", "0", "1", "-", "0", "3">>

D_0104 == <<"2", "0", "2", "4", "-", "0", "1", "-", "0", "4">>

D_0230 == <<"2", "0", "2", "4", "-", "0", "2", "-", "3", "0">>

Fields(o, h, l, c, v) ==
    [k \in {"1. open", "2. high", "3. low", "4. close", "5. volume"} |->
        CASE k = "1. open"  -> o
          [] k = "2. high"  -> h
          [] k = "3. low"   -> l
          [] k = "4. close" -> c
          [] OTHER          -> v]

\* {"1. open": "100", "2. high": "105", "3. low": "99", "4. close": "102",
\*  "5. volume": "1000"}
ValsA == DictVal(Fields(Str(<<"1", "0", "0">>), Str(<<"1", "0", "5">>),
                        Str(<<"9", "9">>), Str(<<"1", "0", "2">>),
                        Str(<<"1", "0", "0", "0">>)))

\* the same with close "103.5" and volume "2000.75"
ValsB == DictVal(Fields(Str(<<"1", "0", "0">>), Str(<<"1", "0", "5">>),
                        Str(<<"9", "9">>), Str(<<"1", "0", "3", ".", "5">>),
                        Str(<<"2", "0", "0", "0", ".", "7", "5">>)))

\* JSON numbers instead of strings, volume 0
ValsNum == DictVal(Fields(Num(10000), Num(10500), Num(9900), Num(10200), Num(0)))

\* only "4. close" present
ValsClose == DictVal(Dict1("4. close", Str(<<"1", "0", "2">>)))

\* open "" and volume null
ValsBlank == DictVal(Fields(Str(<<>>), Str(<<"1", "0", "5">>), Str(<<"9", "9">>),
                            Str(<<"1", "0", "2">>), None))

\* close "N/A"
ValsNA == DictVal(Fields(Str(<<"1", "0", "0">>), Str(<<"1", "0", "5">>),
                         Str(<<"9", "9">>), Str(<<"N", "/", "A">>),
                         Str(<<"1", "0", "0", "0">>)))

DistinctKeys(series) ==
    \A i, j \in 1..Len(series) : i # j => series[i].key # series[j].key

\* every series of at most n items over the given date strings and values; a
\* JSON object holds each key once
SeriesOver(dates, vals, n) ==
    UNION {{ser \in [1..k -> {Entry(d, v) : d \in dates, v \in vals}] :
               DistinctKeys(ser)} : k \in 0..n}

TimeSeries(series) == Dict1("Time Series (Daily)", series)

ErrorPayload == Dict1("Error Message", "Invalid API call.")

NotePayload == Dict1("Note", "API call frequency exceeded.")

\* both indicators in one body
ErrorNotePayload ==
    [k \in {"Error Message", "Note"} |->
        IF k = "Note" THEN "API call frequency exceeded." ELSE "Invalid API call."]

\* a body with neither indicator and no series
MetaPayload == Dict1("Information", "no series")

(***************************************************************************)
(* Initial state: nothing has run                                          *)
(***************************************************************************)
\* task instances of one DAG run (lines 123-142): the state of
\* create_table_if_not_exists, of fetch_<s> and load_<s>, and the number of
\* tries of fetch_<s>
NoRun ==
    [create |-> "none",
     fetch  |-> [s \in SYMBOLS |-> "none"],
     load   |-> [s \in SYMBOLS |-> "none"],
     tries  |-> [s \in SYMBOLS |-> 0]]

InitState(key, exists, tbl) ==
    /\ API_KEY = key
    /\ fpc = [s \in SYMBOLS |-> "idle"]
    /\ attempt = [s \in SYMBOLS |-> 0]
    /\ last_err = [s \in SYMBOLS |-> "None"]
    /\ flog = [s \in SYMBOLS |-> <<>>]
    /\ fres = [s \in SYMBOLS |-> NotRun]
    /\ xcom = [s \in SYMBOLS |-> NoXCom]
    /\ table_exists = exists
    /\ stock_data = tbl
    /\ now = 0
    /\ lpc = [s \in SYMBOLS |-> "idle"]
    /\ largs = [s \in SYMBOLS |-> NoXCom]
    /\ rows = [s \in SYMBOLS |-> <<>>]
    /\ skipped = [s \in SYMBOLS |-> <<>>]
    /\ sent = [s \in SYMBOLS |-> 0]
    /\ pending = [s \in SYMBOLS |-> <<>>]
    /\ tx_time = [s \in SYMBOLS |-> 0]
    /\ conn = [s \in SYMBOLS |-> "none"]
    /\ closes = [s \in SYMBOLS |-> 0]
    /\ lres = [s \in SYMBOLS |-> NoLoad]
    /\ pre_table = [s \in SYMBOLS |-> {}]
    /\ prev_load = [s \in SYMBOLS |-> [args |-> NoXCom, status |-> "none"]]
    /\ ncalls = 0
    /\ task = NoRun
    /\ nreq = [s \in SYMBOLS |-> 0]

\* nothing has run and the table, if it exists, is empty
InitWith(key, exists) == InitState(key, exists, {})

\* os.environ.get("ALPHA_VANTAGE_API_KEY"): unset, empty, or a key
ApiKeys == {None, Str(<<>>), Str(<<"k", "e", "y">>)}

(***************************************************************************)
(* SpecFetch: fetch_stock_data called once per symbol, every outcome of    *)
(* every attempt                                                           *)
(***************************************************************************)
FetchResponses ==
    {Failure(e) : e \in TransportErrors}
    \cup {Body(d) : d \in {ErrorPayload, NotePayload, ErrorNotePayload, MetaPayload,
                           EmptyDict, TimeSeries(<<Entry(D_0102, ValsA)>>)}}

InitFetch == \E key \in ApiKeys : InitWith(key, TRUE)

\* calls for different symbols share no state: one call is followed at a time
OnlyCall(s) == \A o \in SYMBOLS \ {s} : fpc[o] = "idle"

FetchBegin(s) == OnlyCall(s) /\ FetchCall(s) /\ UNCHANGED nreq

FetchStep(s) ==
    /\ OnlyCall(s)
    /\ \E resp \in FetchResponses : FetchAttempt(s, resp)
    /\ UNCHANGED nreq

NextFetch == \E s \in SYMBOLS : FetchBegin(s) \/ FetchStep(s)

SpecFetch == InitFetch /\ [][NextFetch]_vars

(***************************************************************************)
(* Reading the log of a fetch call                                         *)
(***************************************************************************)
IsRequest(e) == e.ev = "request"

IsSleep(e) == e.ev = "sleep"

Requests(log) == SelectSeq(log, IsRequest)

TransportFailed(e) == IsRequest(e) /\ e.resp.kind = "exc"

CarriesError(e) ==
    IsRequest(e) /\ e.resp.kind = "ok" /\ "Error Message" \in DOMAIN e.resp.data

CarriesNote(e) ==
    /\ IsRequest(e) /\ e.resp.kind = "ok"
    /\ "Note" \in DOMAIN e.resp.data
    /\ "Error Message" \notin DOMAIN e.resp.data

Retryable(e) == TransportFailed(e) \/ CarriesNote(e)

\* the call of s ended by raising type(text ... s ...)
FetchRaised(s, type, text) ==
    /\ fpc[s] = "done"
    /\ fres[s].status = "raised"
    /\ fres[s].err.type = type
    /\ fres[s].err.text = text
    /\ fres[s].err.symbol = s

\* C1: while every request of a call has failed in transport, the call has
\* sent at most 5 requests, request k is followed by a sleep of
\* REQUEST_INTERVAL_SEC * k (k = 1..5), and after the 5th failure the call has
\* raised the terminal error naming the symbol; it never ends otherwise.
C1_SustainedTransportFailure ==
    \A s \in SYMBOLS :
        LET log == flog[s]
            n   == Len(Requests(log))
        IN  (n > 0 /\ \A i \in 1..Len(log) : IsRequest(log[i]) => TransportFailed(log[i]))
            => /\ n <= 5
               /\ Len(log) = 2 * n
               /\ \A k \in 1..n :
                     /\ IsRequest(log[2 * k - 1]) /\ log[2 * k - 1].n = k
                     /\ log[2 * k] = Sleep(REQUEST_INTERVAL_SEC * k)
               /\ n = 5 <=> fpc[s] = "done"
               /\ n = 5 => FetchRaised(s, "RuntimeError", "Failed to fetch")
               /\ n < 5 => fpc[s] = "request" /\ attempt[s] = n + 1

C1_Witness ==
    \E s \in SYMBOLS :
        /\ Len(Requests(flog[s])) = 5
        /\ \A i \in 1..Len(flog[s]) :
              IsRequest(flog[s][i]) => TransportFailed(flog[s][i])
        /\ flog[s][10] = Sleep(75)
        /\ FetchRaised(s, "RuntimeError", "Failed to fetch")

\* C5: a request answered by a payload carrying "Error Message" is the last
\* entry of the call's log (no sleep and no request follows it), on whichever
\* attempt it arrives, and the call has raised an error naming the symbol.
C5_ApiErrorRaisesImmediately ==
    \A s \in SYMBOLS :
        \A i \in 1..Len(flog[s]) :
            CarriesError(flog[s][i])
            => /\ i = Len(flog[s])
               /\ FetchRaised(s, "ValueError", "API error for")
               /\ xcom[s] = NoXCom

C5_Witness ==
    \E s \in SYMBOLS :
        /\ Len(flog[s]) = 9
        /\ CarriesError(flog[s][9])
        /\ flog[s][9].n = 5
        /\ "Note" \in DOMAIN flog[s][9].resp.data
        /\ FetchRaised(s, "ValueError", "API error for")

\* C6: a request on attempt k answered by a payload carrying "Note" is
\* followed by a sleep of REQUEST_INTERVAL_SEC * k and then, if k < 5, by
\* attempt k + 1; five retryable outcomes in a row (rate limit or transport,
\* in any mix) end the call with the terminal error and nothing returned.
C6_RateLimitIsRetried ==
    \A s \in SYMBOLS :
        LET log == flog[s]
        IN  /\ \A i \in 1..Len(log) :
                  CarriesNote(log[i])
                  => LET k == log[i].n
                     IN  /\ k \in 1..5
                         /\ i < Len(log)
                         /\ log[i + 1] = Sleep(REQUEST_INTERVAL_SEC * k)
                         /\ k < 5 =>
                               IF i + 1 = Len(log)
                               THEN fpc[s] = "request" /\ attempt[s] = k + 1
                               ELSE IsRequest(log[i + 2]) /\ log[i + 2].n = k + 1
                         /\ k = 5 => i + 1 = Len(log)
            /\ (Len(Requests(log)) = 5 /\ \A i \in 1..Len(log) :
                                             IsRequest(log[i]) => Retryable(log[i]))
               => /\ FetchRaised(s, "RuntimeError", "Failed to fetch")
                  /\ fres[s].data = EmptyDict
                  /\ xcom[s] = NoXCom

C6_Witness ==
    \E s \in SYMBOLS :
        /\ Len(flog[s]) = 10
        /\ CarriesNote(flog[s][1]) /\ TransportFailed(flog[s][3])
        /\ TransportFailed(flog[s][7]) /\ CarriesNote(flog[s][9])
        /\ \A i \in 1..5 : Retryable(flog[s][2 * i - 1])
        /\ FetchRaised(s, "RuntimeError", "Failed to fetch")

Sleeps(log) == SelectSeq(log, IsSleep)

\* a request answered by a payload with neither indicator
Succeeded(e) ==
    /\ IsRequest(e) /\ e.resp.kind = "ok"
    /\ "Error Message" \notin DOMAIN e.resp.data
    /\ "Note" \notin DOMAIN e.resp.data

\* the seconds slept by the entries of log
RECURSIVE SleepTotal(_)
SleepTotal(log) ==
    IF log = <<>> THEN 0
    ELSE (IF IsSleep(Head(log)) THEN Head(log).n ELSE 0) + SleepTotal(Tail(log))

\* the call of s has failed terminally: line 58 raised
FetchExhausted(s) == FetchRaised(s, "RuntimeError", "Failed to fetch")

\* C12: with the credential unset or empty, a call that has begun has ended
\* by raising the configuration error, with an empty log (no request, no
\* sleep) and without entering the retry loop.
C12_MissingCredential ==
    \A s \in SYMBOLS :
        ((API_KEY = None \/ API_KEY = Str(<<>>)) /\ fpc[s] # "idle")
        => /\ fpc[s] = "done"
           /\ fres[s] = Raised(KeyNotSet)
           /\ flog[s] = <<>>
           /\ attempt[s] = 0
           /\ xcom[s] = NoXCom

C12_Witness ==
    \E s \in SYMBOLS :
        /\ API_KEY = Str(<<>>)
        /\ fpc[s] = "done"
        /\ fres[s].status = "raised" /\ fres[s].err.type = "ValueError"

\* C13: a request on attempt k answered by a payload with neither indicator
\* is followed by exactly one sleep, of REQUEST_INTERVAL_SEC, which ends the
\* log; the call has returned that payload as it came and pushed it to XCom.
C13_SuccessPacing ==
    \A s \in SYMBOLS :
        LET log == flog[s]
        IN  \A i \in 1..Len(log) :
               Succeeded(log[i])
               => /\ log[i].n \in 1..5
                  /\ Len(log) = i + 1
                  /\ log[i + 1] = Sleep(REQUEST_INTERVAL_SEC)
                  /\ Len(Requests(log)) = log[i].n
                  /\ fpc[s] = "done"
                  /\ fres[s] = Returned(log[i].resp.data)
                  /\ xcom[s] = XCom(log[i].resp.data)

C13_Witness ==
    \E s \in SYMBOLS :
        /\ Len(flog[s]) = 6
        /\ Succeeded(flog[s][5]) /\ flog[s][5].n = 3
        /\ flog[s][4] = Sleep(30)
        /\ flog[s][6] = Sleep(15)
        /\ fres[s].status = "returned"
        /\ "Time Series (Daily)" \in DOMAIN fres[s].data

\* C14: the terminal error raised after the 5th attempt carries the error of
\* the 5th attempt: the exception of the transport failure, or "Rate
\* limited." when the 5th answer was the advisory; last_err holds the same.
C14_LastErrorReported ==
    \A s \in SYMBOLS :
        FetchExhausted(s)
        => LET reqs == Requests(flog[s])
               last == reqs[5].resp
           IN  /\ Len(reqs) = 5
               /\ fres[s].err.cause =
                     (IF last.kind = "exc" THEN last.exc ELSE "Rate limited.")
               /\ last_err[s] = fres[s].err.cause

C14_Witness ==
    \E s \in SYMBOLS :
        /\ FetchExhausted(s)
        /\ TransportFailed(flog[s][1]) /\ flog[s][1].resp.exc = "Timeout"
        /\ CarriesNote(flog[s][7])
        /\ TransportFailed(flog[s][9]) /\ flog[s][9].resp.exc = "ConnectionError"
        /\ fres[s].err.cause = "ConnectionError"

\* C18: every sleep that follows a retryable outcome is followed by the
\* request of the next attempt (or the call is about to send it); a call
\* that failed terminally has slept 4 times, once before each of attempts
\* 2..5, and its log ends with the 5th request.
C18_BackoffOnlyBetweenAttempts ==
    \A s \in SYMBOLS :
        LET log == flog[s]
        IN  /\ \A i \in 2..Len(log) :
                  (IsSleep(log[i]) /\ Retryable(log[i - 1]))
                  => IF i = Len(log) THEN fpc[s] = "request"
                     ELSE IsRequest(log[i + 1])
            /\ FetchExhausted(s)
               => /\ Len(Sleeps(log)) = 4
                  /\ IsRequest(log[Len(log)])

\* C19 as stated: the backoff slept by a call that failed terminally is at
\* most 5 * REQUEST_INTERVAL_SEC.
C19_AsStated ==
    \A s \in SYMBOLS :
        FetchExhausted(s) => SleepTotal(flog[s]) <= 5 * REQUEST_INTERVAL_SEC

\* C19: the backoff slept by a call that failed terminally is
\* (1 + 2 + 3 + 4 + 5) * REQUEST_INTERVAL_SEC, and no call sleeps more.
C19_TotalBackoff ==
    \A s \in SYMBOLS :
        /\ SleepTotal(flog[s]) <= (1 + 2 + 3 + 4 + 5) * REQUEST_INTERVAL_SEC
        /\ FetchExhausted(s)
           => SleepTotal(flog[s]) = (1 + 2 + 3 + 4 + 5) * REQUEST_INTERVAL_SEC

C19_Witness ==
    \E s \in SYMBOLS :
        /\ FetchExhausted(s)
        /\ CarriesNote(flog[s][1]) /\ TransportFailed(flog[s][9])
        /\ SleepTotal(flog[s]) = 225

(***************************************************************************)
(* SpecLoad: process_and_store_data called repeatedly, for any symbol and  *)
(* any payload, with database errors, around the table bootstrap           *)
(***************************************************************************)
MaxEntries == 3

MaxLoads == 2

\* the items series are built from: a day, the same day written without
\* zero padding and carrying other values, and the next day
LoadEntries == {Entry(D_0102, ValsA), Entry(D_12, ValsB), Entry(D_0103, ValsA)}

LoadSeries ==
    UNION {{ser \in [1..k -> LoadEntries] : DistinctKeys(ser)} : k \in 0..MaxEntries}

LoadInputs ==
    {NoXCom, XCom(EmptyDict), XCom(MetaPayload),
     XCom(TimeSeries(<<Entry(D_0230, ValsA)>>)),
     XCom(TimeSeries(<<Entry(D_0230, ValsA), Entry(D_0102, ValsB)>>)),
     XCom(TimeSeries(<<Entry(D_0104, ValsA), Entry(D_0103, ValsA),
                       Entry(D_0102, ValsB)>>))}
    \cup {XCom(TimeSeries(ser)) : ser \in LoadSeries}

\* the symbols are interchangeable: one gets every input, the others get a few
\* that write the same dates
OtherInputs ==
    {NoXCom,
     XCom(TimeSeries(<<Entry(D_0102, ValsB)>>)),
     XCom(TimeSeries(<<Entry(D_0102, ValsA), Entry(D_0103, ValsA)>>))}

InputsFor(s) == IF s = "IBM" THEN LoadInputs ELSE OtherInputs

\* the task create_table_if_not_exists run on its own
Bootstrap ==
    /\ CreateTable
    /\ UNCHANGED <<API_KEY, fetchVars, loadVars, task>>

InitLoad == InitWith(Str(<<"k", "e", "y">>), TRUE)

\* a further call, while the bound on calls allows
LoadCall(s) ==
    /\ ncalls < MaxLoads
    /\ \E x \in InputsFor(s) : LoadBegin(s, x, TRUE)

NextLoad ==
    \/ Bootstrap
    \/ \E s \in SYMBOLS :
          \/ LoadCall(s)
          \/ \E r \in BOOLEAN : ExecPage(s, r)
          \/ \E r \in BOOLEAN : DbFault(s, "OperationalError", r)
          \/ Commit(s)

SpecLoad == InitLoad /\ [][NextLoad]_vars

(***************************************************************************)
(* Reading the table                                                       *)
(***************************************************************************)
RowsOf(tbl, s) == {r \in tbl : r.symbol = s}

\* a stored row without its write timestamp
Values(r) ==
    [symbol |-> r.symbol, record_date |-> r.record_date, open |-> r.open,
     high |-> r.high, low |-> r.low, close |-> r.close, volume |-> r.volume]

Plain(tbl) == {Values(r) : r \in tbl}

KeysOf(tbl) == {Key(r) : r \in tbl}

\* the call of s has ended by committing
LoadCommitted(s) == lpc[s] = "done" /\ lres[s].status = "committed"

\* position i holds the last row of rs with its key
LastForKey(rs, i) == \A j \in (i + 1)..Len(rs) : Key(rs[j]) # Key(rs[i])

DistinctDates(rs) ==
    \A i, j \in 1..Len(rs) : i # j => Key(rs[i]) # Key(rs[j])

\* C2: the table never holds two rows with one (symbol, record_date); after a
\* Loader call has committed, every date of its payload is held by one row
\* carrying the payload's values for that date and the timestamp of this
\* call's transaction, later than the timestamp the row had before.
C2_OneRowPerKey ==
    /\ \A r1, r2 \in stock_data : Key(r1) = Key(r2) => r1 = r2
    /\ \A s \in SYMBOLS :
          LoadCommitted(s) =>
             \A i \in 1..Len(rows[s]) :
                LastForKey(rows[s], i) =>
                   LET q    == rows[s][i]
                       held == {r \in stock_data : Key(r) = Key(q)}
                   IN  /\ held = {Stored(q, tx_time[s])}
                       /\ \A old \in pre_table[s] :
                             Key(old) = Key(q) => old.fetched_at < tx_time[s]

C2_Witness ==
    \E s \in SYMBOLS :
        /\ LoadCommitted(s)
        /\ \E old \in pre_table[s], new \in stock_data :
              /\ Key(old) = Key(new) /\ new.symbol = s
              /\ old.close # new.close /\ old.volume # new.volume
              /\ old.fetched_at < new.fetched_at
        /\ Cardinality(stock_data) = Cardinality(pre_table[s])

\* C3: a committed Loader call whose payload has N items, none skipped, for N
\* distinct dates leaves exactly N rows of its symbol when the table held
\* none before; when the previous call of the symbol committed the identical
\* payload, the symbol's keys, row count and price/volume values are the
\* same after the call as before it (N rows when that previous call began
\* on a table without rows of the symbol).
C3_LoadIsIdempotent ==
    \A s \in SYMBOLS :
        LET n == Len(SeriesOf(largs[s].data))
        IN  (LoadCommitted(s) /\ Len(rows[s]) = n /\ DistinctDates(rows[s]))
            => /\ RowsOf(pre_table[s], s) = {}
                  => Cardinality(RowsOf(stock_data, s)) = n
               /\ (prev_load[s].status = "committed" /\ prev_load[s].args = largs[s])
                  => /\ Plain(RowsOf(stock_data, s)) = Plain(RowsOf(pre_table[s], s))
                     /\ KeysOf(RowsOf(stock_data, s)) = KeysOf(RowsOf(pre_table[s], s))
                     /\ Cardinality(RowsOf(stock_data, s)) =
                           Cardinality(RowsOf(pre_table[s], s))

C3_Witness ==
    \E s \in SYMBOLS :
        /\ LoadCommitted(s)
        /\ Len(rows[s]) = 3 /\ DistinctDates(rows[s])
        /\ prev_load[s].status = "committed" /\ prev_load[s].args = largs[s]
        /\ Cardinality(RowsOf(stock_data, s)) = 3
        /\ RowsOf(stock_data, s) # RowsOf(pre_table[s], s)

\* C4: a Loader call that met a database error after it connected has rolled
\* back, left the rows of its symbol as they were before the call and raised
\* the error that names the symbol; a call that met none has committed every
\* parsed row.
C4_AtomicWrite ==
    \A s \in SYMBOLS :
        /\ (lpc[s] = "done" /\ lres[s].status = "raised" /\ conn[s] = "closed")
           => /\ RowsOf(stock_data, s) = RowsOf(pre_table[s], s)
              /\ lres[s].err.type = "RuntimeError"
              /\ lres[s].err.symbol = s
        /\ LoadCommitted(s)
           => \A i \in 1..Len(rows[s]) :
                 \E r \in stock_data : Key(r) = Key(rows[s][i])

\* C15: a Loader call that has ended either never acquired a connection
\* (nothing to write) or closed the one it acquired exactly once, whether it
\* committed, rolled back and raised, or failed inside rollback; a connection
\* is open only while its call is writing.
C15_ConnectionClosedOnce ==
    \A s \in SYMBOLS :
        /\ lpc[s] = "done"
           => \/ conn[s] = "none" /\ closes[s] = 0 /\ lres[s].status = "noop"
              \/ conn[s] = "closed" /\ closes[s] = 1
                    /\ lres[s].status \in {"committed", "raised"}
        /\ lpc[s] = "writing" => conn[s] = "open" /\ closes[s] = 0
        /\ conn[s] = "open" => lpc[s] = "writing"

C15_Witness ==
    /\ lpc["IBM"] = "done" /\ lpc["MSFT"] = "done"
    /\ lres["IBM"].status = "raised" /\ lres["IBM"].err.type = "InterfaceError"
    /\ conn["IBM"] = "closed" /\ closes["IBM"] = 1
    /\ lres["MSFT"].status = "committed"
    /\ conn["MSFT"] = "closed" /\ closes["MSFT"] = 1

\* C8: a Loader call given no payload, a payload without a series or with an
\* empty one, or a payload whose every item fails to parse has returned
\* normally without connecting, without a transaction and without a write.
EveryEntryFails(s, series) ==
    \A i \in 1..Len(series) : ~ParseEntry(s, series[i]).ok

C8_NothingToDo ==
    \A s \in SYMBOLS :
        (/\ lpc[s] # "idle"
         /\ \/ ~largs[s].has
            \/ "Time Series (Daily)" \notin DOMAIN largs[s].data
            \/ EveryEntryFails(s, largs[s].data["Time Series (Daily)"]))
        => /\ lpc[s] = "done"
           /\ lres[s] = NoOp
           /\ conn[s] = "none"
           /\ tx_time[s] = 0 /\ sent[s] = 0 /\ pending[s] = <<>>
           /\ RowsOf(stock_data, s) = RowsOf(pre_table[s], s)

C8_Witness ==
    \E s \in SYMBOLS :
        /\ lpc[s] = "done" /\ lres[s] = NoOp
        /\ largs[s].has
        /\ Len(SeriesOf(largs[s].data)) = 1
        /\ EveryEntryFails(s, SeriesOf(largs[s].data))
        /\ prev_load[s].status = "committed"
        /\ RowsOf(stock_data, s) # {}

(***************************************************************************)
(* SpecNormalise: one Loader call on an empty table, no database fault,    *)
(* over payloads mixing good, aliased and malformed items                  *)
(***************************************************************************)
MaxItems == 3

ParseDates == {D_0102, D_12, D_0103, D_0230}

ParseVals == {ValsA, ValsNum, ValsClose, ValsBlank, ValsNA, NotADict}

ParseInputs == {XCom(TimeSeries(ser)) : ser \in SeriesOver(ParseDates, ParseVals, MaxItems)}

InitNormalise == InitWith(Str(<<"k", "e", "y">>), TRUE)

\* the one call
NormaliseCall ==
    /\ ncalls = 0
    /\ \E x \in ParseInputs : LoadBegin("IBM", x, TRUE)

NextNormalise ==
    \/ NormaliseCall
    \/ ExecPage("IBM", TRUE)
    \/ Commit("IBM")

SpecNormalise == InitNormalise /\ [][NextNormalise]_vars

NumericFields == {"1. open", "2. high", "3. low", "4. close", "5. volume"}

\* a field that is absent, null, empty text or the number 0
Blank(d, f) == f \notin DOMAIN d \/ ~Truthy(d[f])

\* a field holding text that is no number
Unparseable(d, f) == ~Blank(d, f) /\ ~float(d[f]).ok

\* the date key does not parse, or the value cannot be read: it is no dict,
\* or a field it holds is text that is no number
Malformed(e) ==
    \/ ~strptime(e.key).ok
    \/ ~e.vals.isdict
    \/ \E f \in NumericFields : Unparseable(e.vals.d, f)

MalformedAt(series) == {i \in 1..Len(series) : Malformed(series[i])}

\* the date and the values an item is read as
Reading(s, e) == ParseEntry(s, e).row

\* C7 as stated: of N items exactly one is malformed; the call does not fail
\* and the table holds exactly the readings of the N-1 others.
C7_AsStated ==
    LET s      == "IBM"
        series == SeriesOf(largs[s].data)
        bad    == MalformedAt(series)
    IN  (lpc[s] = "done" /\ Cardinality(bad) = 1)
        => /\ lres[s].status # "raised"
           /\ Cardinality(RowsOf(stock_data, s)) = Len(series) - 1
           /\ Plain(RowsOf(stock_data, s)) =
                 {Reading(s, series[i]) : i \in (1..Len(series)) \ bad}

\* C7: of N items exactly one is malformed and the N-1 others are for
\* pairwise distinct dates; the call does not fail, reports N-1 rows (or
\* returns without writing when N = 1), and the table holds exactly the
\* readings of the N-1 others and no row for the malformed item.
C7_SkipsMalformedEntry ==
    LET s      == "IBM"
        series == SeriesOf(largs[s].data)
        bad    == MalformedAt(series)
        good   == (1..Len(series)) \ bad
    IN  (/\ lpc[s] = "done" /\ Cardinality(bad) = 1
         /\ \A i, j \in good :
               i # j => strptime(series[i].key) # strptime(series[j].key))
        => /\ lres[s] = IF Len(series) = 1 THEN NoOp ELSE Committed(Len(series) - 1)
           /\ Cardinality(RowsOf(stock_data, s)) = Len(series) - 1
           /\ Plain(RowsOf(stock_data, s)) = {Reading(s, series[i]) : i \in good}
           /\ skipped[s] = <<series[CHOOSE i \in bad : TRUE].key>>

C7_Witness ==
    LET s      == "IBM"
        series == SeriesOf(largs[s].data)
    IN  /\ LoadCommitted(s)
        /\ Len(series) = 3
        /\ MalformedAt(series) = {2}
        /\ strptime(series[2].key).ok
        /\ Cardinality(RowsOf(stock_data, s)) = 2

\* a field that is missing or cannot be parsed reads as 0
FieldOrZero(d, f) ==
    IF Blank(d, f) \/ Unparseable(d, f) THEN 0 ELSE float(d[f]).v

Perms(n) == {p \in [1..n -> 1..n] : \A i, j \in 1..n : i # j => p[i] # p[j]}

Reordered(rs, p) == [i \in 1..Len(rs) |-> rs[p[i]]]

\* the table the call leaves is the one any order of its rows leaves
OrderFree(s) ==
    \A p \in Perms(Len(rows[s])) :
        stock_data = ApplyAll(pre_table[s], Reordered(rows[s], p), tx_time[s])

\* the rows the transaction wrote hold each key once
WrittenOnce(s) ==
    \A i, j \in 1..Len(pending[s]) :
        i # j => Key(pending[s][i]) # Key(pending[s][j])

\* the items of the series that parse are for pairwise distinct dates
DatesDistinct(series) ==
    \A i, j \in 1..Len(series) :
        (i # j /\ strptime(series[i].key).ok /\ strptime(series[j].key).ok)
        => strptime(series[i].key) # strptime(series[j].key)

\* C17 as stated: the date strings of the payload are pairwise distinct; the
\* call writes each key at most once and the table it leaves does not depend
\* on the order of the rows.
C17_AsStated ==
    LET s == "IBM"
    IN  (lpc[s] # "idle" /\ DistinctKeys(SeriesOf(largs[s].data)))
        => /\ WrittenOnce(s)
           /\ LoadCommitted(s) => DistinctDates(rows[s]) /\ OrderFree(s)

\* C17: the date strings of the payload denote pairwise distinct dates; the
\* call writes each key at most once, does not fail, and the table it leaves
\* does not depend on the order of the rows.
C17_OneWritePerKey ==
    LET s == "IBM"
    IN  (lpc[s] # "idle" /\ DatesDistinct(SeriesOf(largs[s].data)))
        => /\ WrittenOnce(s)
           /\ DistinctDates(rows[s])
           /\ lres[s].status # "raised"
           /\ LoadCommitted(s) => OrderFree(s)

C17_Witness ==
    LET s      == "IBM"
        series == SeriesOf(largs[s].data)
    IN  /\ LoadCommitted(s)
        /\ Len(series) = 3 /\ Len(rows[s]) = 2
        /\ DatesDistinct(series)
        /\ series[1].key = D_0103 /\ series[3].key = D_12
        /\ Values(rows[s][1]) # Values(rows[s][2])
        /\ rows[s][1].volume # rows[s][2].volume
        /\ Cardinality(stock_data) = 2

(***************************************************************************)
(* Spec: one run of the DAG   (lines 115-143)                              *)
(* A task instance is "none" until the scheduler starts it, then           *)
(* "running", then "success", "failed" or "up_for_retry"; a task whose     *)
(* upstream did not succeed becomes "upstream_failed" (the default trigger *)
(* rule, all_success).                                                     *)
(***************************************************************************)
\* line 134: retries=3 of fetch_<s>; the other tasks set none
Retries == 3

\* load_<s> wired after create_table instead of after fetch_<s>
LoadUpstreamIsCreate(s) == task.create

\* line 143: create_table >> fetch >> load
FetchUpstream(s) == task.create

LoadUpstream(s) == task.fetch[s]

\* the scheduler runs create_table_if_not_exists; the DDL succeeds or fails
DagCreateTable(ok) ==
    /\ task.create = "none"
    /\ IF ok
       THEN CreateTable /\ task' = [task EXCEPT !.create = "success"]
       ELSE UNCHANGED dbVars /\ task' = [task EXCEPT !.create = "failed"]
    /\ UNCHANGED <<API_KEY, fetchVars, loadVars>>

\* the scheduler starts (or retries) fetch_<s> in a fresh process
DagStartFetch(s) ==
    /\ FetchUpstream(s) = "success"
    /\ task.fetch[s] \in {"none", "up_for_retry"}
    /\ task' = [task EXCEPT !.fetch[s] = "running", !.tries[s] = task.tries[s] + 1]
    /\ fpc' = [fpc EXCEPT ![s] = "idle"]
    /\ UNCHANGED <<API_KEY, attempt, last_err, flog, fres, xcom, nreq, loadVars,
                   dbVars>>

DagFetchCall(s) == task.fetch[s] = "running" /\ FetchCall(s) /\ UNCHANGED nreq

DagFetchAttempt(s, resp) ==
    /\ task.fetch[s] = "running"
    /\ FetchAttempt(s, resp)
    /\ UNCHANGED nreq

\* one try more than retries=3 allows
RetryOnceMore(tries) == tries <= Retries + 1

\* a task instance that raised is tried again while its tries so far do not
\* exceed retries
RetryLeft(tries) == tries <= Retries

\* the callable returned or raised: success, another try, or failed
DagEndFetch(s) ==
    /\ task.fetch[s] = "running"
    /\ fpc[s] = "done"
    /\ task' = [task EXCEPT !.fetch[s] =
                   IF fres[s].status = "returned" THEN "success"
                   ELSE IF RetryLeft(task.tries[s]) THEN "up_for_retry"
                   ELSE "failed"]
    /\ UNCHANGED <<API_KEY, fetchVars, loadVars, dbVars>>

\* the scheduler starts load_<s>
DagStartLoad(s) ==
    /\ LoadUpstream(s) = "success"
    /\ task.load[s] = "none"
    /\ task' = [task EXCEPT !.load[s] = "running"]
    /\ UNCHANGED <<API_KEY, fetchVars, loadVars, dbVars>>

\* line 62: the callable pulls the XCom of fetch_<s>
DagLoadCall(s, connect_ok) ==
    /\ task.load[s] = "running"
    /\ lpc[s] = "idle"
    /\ LoadBegin(s, xcom[s], connect_ok)

DagEndLoad(s) ==
    /\ task.load[s] = "running"
    /\ lpc[s] = "done"
    /\ task' = [task EXCEPT !.load[s] =
                   IF lres[s].status = "raised" THEN "failed" ELSE "success"]
    /\ UNCHANGED <<API_KEY, fetchVars, loadVars, dbVars>>

\* a task whose upstream failed, or was itself skipped so, never runs
DagUpstreamFailed(s) ==
    /\ \/ /\ task.fetch[s] = "none"
          /\ FetchUpstream(s) \in {"failed", "upstream_failed"}
          /\ task' = [task EXCEPT !.fetch[s] = "upstream_failed"]
       \/ /\ task.load[s] = "none"
          /\ LoadUpstream(s) \in {"failed", "upstream_failed"}
          /\ task' = [task EXCEPT !.load[s] = "upstream_failed"]
    /\ UNCHANGED <<API_KEY, fetchVars, loadVars, dbVars>>

\* what the API answers during the run
DagResponses ==
    {Failure("Timeout"), Body(ErrorPayload),
     Body(TimeSeries(<<Entry(D_0103, ValsA), Entry(D_0102, ValsB),
                       Entry(D_0230, ValsA)>>))}

\* rows earlier runs of the DAG committed: for one symbol a day this run
\* loads again and a day it does not, for the other a day it loads again
PriorRow(s, d) == Stored(ParseEntry(s, Entry(d, ValsA)).row, 0)

PriorRows ==
    {PriorRow("IBM", D_0102), PriorRow("IBM", D_0104), PriorRow("MSFT", D_0103)}

\* the table before the run: never created, or created and filled by
\* earlier runs
PriorTables == {[exists |-> FALSE, rows |-> {}], [exists |-> TRUE, rows |-> PriorRows]}

Init ==
    \E key \in {None, Str(<<"k", "e", "y">>)}, tbl \in PriorTables :
        InitState(key, tbl.exists, tbl.rows)

\* the steps of the tasks and callables of one symbol
PipelineStep(s) ==
    \/ DagStartFetch(s)
    \/ DagFetchCall(s)
    \/ \E resp \in DagResponses : DagFetchAttempt(s, resp)
    \/ DagEndFetch(s)
    \/ DagStartLoad(s)
    \/ \E c \in BOOLEAN : DagLoadCall(s, c)
    \/ \E r \in BOOLEAN : ExecPage(s, r)
    \/ \E r \in BOOLEAN : DbFault(s, "OperationalError", r)
    \/ Commit(s)
    \/ DagEndLoad(s)
    \/ DagUpstreamFailed(s)

Next ==
    \/ \E ok \in BOOLEAN : DagCreateTable(ok)
    \/ \E s \in SYMBOLS : PipelineStep(s)

Spec == Init /\ [][Next]_vars

\* the load task of s has been started
LoadStarted(s) == task.load[s] \in {"running", "success", "failed"} \/ lpc[s] # "idle"

\* the fetch task of s has been started
FetchStarted(s) ==
    \/ task.fetch[s] \in {"running", "success", "failed", "up_for_retry"}
    \/ task.tries[s] > 0 \/ fpc[s] # "idle" \/ flog[s] # <<>>

\* C10: in a DAG run the load task of a symbol has started only if the fetch
\* task of that symbol has succeeded (its callable returned a payload); no
\* fetch or load task has started unless create_table_if_not_exists has
\* succeeded; the load of a symbol whose fetch failed for good never runs.
C10_TaskOrder ==
    \A s \in SYMBOLS :
        /\ LoadStarted(s)
           => /\ task.fetch[s] = "success"
              /\ fpc[s] = "done" /\ fres[s].status = "returned"
              /\ xcom[s] = XCom(fres[s].data)
        /\ (FetchStarted(s) \/ LoadStarted(s))
           => task.create = "success" /\ table_exists
        /\ task.fetch[s] \in {"failed", "upstream_failed"}
           => /\ task.load[s] \in {"none", "upstream_failed"}
              /\ lpc[s] = "idle" /\ lres[s] = NoLoad

C10_Witness ==
    /\ task.load["IBM"] = "success"
    /\ LoadCommitted("IBM")
    /\ Cardinality(RowsOf(stock_data, "IBM")) = 2
    /\ task.fetch["MSFT"] = "failed"
    /\ task.tries["MSFT"] = 4
    /\ task.load["MSFT"] = "upstream_failed"
    /\ RowsOf(stock_data, "MSFT") = {}

\* the Loader calls of both symbols have committed and each began before the
\* other committed
LoadsOverlapped ==
    /\ LoadCommitted("IBM") /\ LoadCommitted("MSFT")
    /\ \A r \in pre_table["IBM"] : r.fetched_at # tx_time["MSFT"]
    /\ \A r \in pre_table["MSFT"] : r.fetched_at # tx_time["IBM"]

\* C11: the rows of a symbol are those its own Loader call left: the rows
\* of before the run while the call has not begun, the rows the call found
\* while it writes and after it raised (a fetch or storage failure of
\* another symbol, or its commit, changes none of them), and after it
\* committed the rows the call running alone on the table it found would
\* leave; a task of a symbol is kept from running only by the failure of its
\* own upstream, and has failed only when its own callable raised.
C11_SymbolsIsolated ==
    \A s \in SYMBOLS :
        /\ lpc[s] = "idle"
           => RowsOf(stock_data, s) \in {{}, RowsOf(PriorRows, s)}
        /\ (lpc[s] = "writing" \/ (lpc[s] = "done" /\ ~LoadCommitted(s)))
           => RowsOf(stock_data, s) = RowsOf(pre_table[s], s)
        /\ LoadCommitted(s)
           => RowsOf(stock_data, s) =
                 RowsOf(ApplyAll(pre_table[s], rows[s], tx_time[s]), s)
        /\ task.fetch[s] = "upstream_failed" => task.create = "failed"
        /\ task.load[s] = "upstream_failed"
           => task.fetch[s] \in {"failed", "upstream_failed"}
        /\ task.fetch[s] = "failed" => fpc[s] = "done" /\ fres[s].status = "raised"
        /\ task.load[s] = "failed" => lpc[s] = "done" /\ lres[s].status = "raised"

C11_Witness ==
    /\ LoadsOverlapped
    /\ PriorRows \cap stock_data = {PriorRow("IBM", D_0104)}
    /\ Cardinality(RowsOf(stock_data, "IBM")) = 3
    /\ Cardinality(RowsOf(stock_data, "MSFT")) = 2

\* C16: no step of the DAG run (create_table, fetch, load, committing or
\* rolling back) takes a (symbol, record_date) key out of the table.
C16_NoRowRemoved == [][KeysOf(stock_data) \subseteq KeysOf(stock_data')]_vars

C16_Witness ==
    /\ PriorRows # {}
    /\ task.create = "success"
    /\ KeysOf(PriorRows) \subseteq KeysOf(stock_data)
    /\ LoadCommitted("IBM")
    /\ lpc["MSFT"] = "done" /\ lres["MSFT"].status = "raised"
    /\ task.fetch["MSFT"] = "success"
    /\ Cardinality(stock_data) = 4

(***************************************************************************)
(* SpecRetry: one run of the DAG in which every requests.get call is       *)
(* counted, the tasks of one symbol followed at a time                     *)
(***************************************************************************)
RetryResponses ==
    {Failure("Timeout"), Body(ErrorPayload), Body(NotePayload),
     Body(TimeSeries(<<Entry(D_0102, ValsA)>>))}

InitRetry == \E key \in {None, Str(<<"k", "e", "y">>)} : InitWith(key, FALSE)

\* the tasks of different symbols share no state: one symbol is followed
OnlyPipeline(s) ==
    \A o \in SYMBOLS \ {s} : task.fetch[o] = "none" /\ task.load[o] = "none"

\* line 44: one more request of fetch_<s> in this run
CountedFetchAttempt(s, resp) ==
    /\ task.fetch[s] = "running"
    /\ FetchAttempt(s, resp)
    /\ nreq' = [nreq EXCEPT ![s] = nreq[s] + 1]

NextRetry ==
    \/ \E ok \in BOOLEAN : DagCreateTable(ok)
    \/ \E s \in SYMBOLS : OnlyPipeline(s) /\ DagStartFetch(s)
    \/ \E s \in SYMBOLS : OnlyPipeline(s) /\ DagFetchCall(s)
    \/ \E s \in SYMBOLS :
          OnlyPipeline(s) /\ \E resp \in RetryResponses : CountedFetchAttempt(s, resp)
    \/ \E s \in SYMBOLS : OnlyPipeline(s) /\ DagEndFetch(s)
    \/ \E s \in SYMBOLS : OnlyPipeline(s) /\ DagStartLoad(s)
    \/ \E s \in SYMBOLS : OnlyPipeline(s) /\ \E c \in BOOLEAN : DagLoadCall(s, c)
    \/ \E s \in SYMBOLS : OnlyPipeline(s) /\ \E r \in BOOLEAN : ExecPage(s, r)
    \/ \E s \in SYMBOLS :
          OnlyPipeline(s) /\ \E r \in BOOLEAN : DbFault(s, "OperationalError", r)
    \/ \E s \in SYMBOLS : OnlyPipeline(s) /\ Commit(s)
    \/ \E s \in SYMBOLS : OnlyPipeline(s) /\ DagEndLoad(s)
    \/ \E s \in SYMBOLS : OnlyPipeline(s) /\ DagUpstreamFailed(s)

SpecRetry == InitRetry /\ [][NextRetry]_vars

\* C20: in a DAG run fetch_<s> is executed at most 4 times and sends at most
\* 20 requests (5 per execution); the task fails for good only when its 4th
\* execution raised, whatever the error, and before that a raise puts it up
\* for retry; the Loader of s is called at most once, and a load that raised
\* is failed, never tried again.
C20_FetchRetried ==
    \A s \in SYMBOLS :
        /\ task.tries[s] <= 4
        /\ nreq[s] <= 20
        /\ nreq[s] <= 5 * task.tries[s]
        /\ task.fetch[s] = "failed"
           => task.tries[s] = 4 /\ fres[s].status = "raised"
        /\ task.fetch[s] = "up_for_retry"
           => task.tries[s] < 4 /\ fres[s].status = "raised"
        /\ prev_load[s].status = "none"
        /\ task.load[s] \in {"success", "failed"} => lpc[s] = "done"
        /\ task.load[s] = "failed" => lres[s].status = "raised"
        /\ lres[s].status = "raised" => task.load[s] \in {"running", "failed"}

C20_Witness ==
    \E s \in SYMBOLS :
        /\ task.fetch[s] = "failed"
        /\ task.tries[s] = 4
        /\ nreq[s] = 20
        /\ fres[s].err.type = "ValueError"
        /\ task.load[s] = "upstream_failed"

====
